---- MODULE Spec2Model ----
(***************************************************************************)
(* The hook bridge of xeyes: hook/src/lib.rs (the hook module) and the     *)
(* WM_HOOK_MOUSE_POS branch of wnd_proc in xeyes/src/main.rs (the host).   *)
(*                                                                         *)
(* The operating system is modelled by what the code observes of it: the   *)
(* named file-mapping object (it exists while a handle or a view of it is  *)
(* open, and is zero-filled when created), the set of live hook            *)
(* registrations, and the calls the code makes (SendMessageW,              *)
(* CallNextHookEx, UnhookWindowsHookEx), which are recorded.               *)
(***************************************************************************)
EXTENDS Integers, Sequences, FiniteSets, TLC

\* ---------------------------------------------------------------- bounds
\* Hook handles the OS can hand out at the same time.
MaxHooks == 2
\* set_hook calls that write share_data.hwnd in a step-by-step run.
MaxWrites == 2

\* ------------------------------------------------------ program constants
NULL == 0
HC_ACTION == 0
WM_MOUSEMOVE == 512
WM_USER == 1024
\* hook/src/lib.rs:24
WM_HOOK_MOUSE_POS == WM_USER + 42
\* xeyes/src/main.rs:30
HOST_WM_HOOK_MOUSE_POS == WM_USER + 42
WM_PAINT == 15

\* ------------------------------------------------------------ input sets
Threads == {1, 2}
\* The thread the loader runs DLL_PROCESS_ATTACH on; which one it is does not
\* matter, the threads being alike.
LoaderThread == CHOOSE t \in Threads : \A u \in Threads : t <= u
\* The module instance handle the loader passes to DllMain.
ModuleInst == 9
\* The host's own window and a window of some other program.
HostWindow == 42
OtherWindow == 7
Windows == {HostWindow, OtherWindow}
HwndArgs == Windows \cup {NULL}
HookIds == 1..MaxHooks
\* A code the OS passes when the hook must not process the event.
HC_SKIP == 0 - 1
Codes == {HC_ACTION, HC_SKIP}
\* WM_LBUTTONDOWN
WM_OTHER == 513
MessageKinds == {WM_MOUSEMOVE, WM_OTHER}
\* lparam: the MSLLHOOKSTRUCT the OS passes, identified by its point.
Points == {<<100, 200>>, <<3, 4>>}
\* rect.left and rect.top that GetWindowRect gives: with the second the left
\* eye, with the third the right eye is centred on the point (100, 200).
Origins == {<<0, 0>>, <<52, 90>>, <<0 - 38, 90>>}
\* What the next hook in the chain returns.
NextResults == {0, 1}

VARIABLES
    loaded,       \* the loader's state: "none", "attached", "attach_failed", "detached"
    MAP_FILE,     \* thread_local MAP_FILE: per thread, whether it holds Some(handle)
    HINST,        \* thread_local HINST: per thread, NULL (None) or the instance
    regionHandle, \* whether the handle CreateFileMappingW returned is still open
    leaked,       \* whether a handle or view that MapView::new opened is still open
    share,        \* the ShareData in the mapping object
    hooks,        \* the hook handles registered with the OS and not yet removed
    POS,          \* the host's thread_local POS
    installCalled,\* whether set_hook has been called
    prev,         \* the hwnd of the host call before the last one if that was a
                  \* set_hook that returned true
    last,         \* the last host call (set_hook or end_hook) and what it did
    cb,           \* the last hook_proc invocation since the last host call
    pc,           \* the host call in progress, when calls run step by step
    writes,       \* the hwnd arguments written to share_data.hwnd, in order
    regOf,        \* per registered hook, which of these writes its set_hook made
    seen,         \* the hook_proc invocation in progress or last finished, when
                  \* it runs step by step
    host          \* what the host's wnd_proc has handled: the point of the
                  \* last position message, what the event record it pointed
                  \* to holds now, the last message that drew or stored
                  \* something or went to DefWindowProcW, and the last paint

\* What the step-by-step runs of set_hook, end_hook and hook_proc add.
raceVars == <<pc, writes, regOf, seen>>

vars == <<loaded, MAP_FILE, HINST, regionHandle, leaked, share, hooks, POS,
          installCalled, prev, last, cb, raceVars, host>>

\* ------------------------------------------------------------- the region
\* struct ShareData, zero-filled by the OS when the object is created.
ShareData == [hook : HookIds \cup {NULL}, hwnd : HwndArgs]
ZeroShare == [hook |-> NULL, hwnd |-> NULL]
NoRes == [handles |-> 0, views |-> 0]

\* The named object lives while any handle or view of it is open.
RegionExistsWith(rh, lk) == rh \/ lk
RegionExists == RegionExistsWith(regionHandle, leaked)

\* MapView::new: OpenFileMappingW fails when no object has the name; then
\* MapViewOfFile may return null, and ensure! returns the error.
MapViewOutcomes ==
    IF ~RegionExists THEN {"open_failed"} ELSE {"ok", "view_failed"}

\* What MapView::new has opened when it returns: on "view_failed" the handle
\* that it never wrapped in a MapView, on "ok" the handle and the view that
\* the MapView owns.
MapView_new(o) ==
    CASE o = "open_failed" -> NoRes
      [] o = "view_failed" -> [handles |-> 1, views |-> 0]
      [] o = "ok" -> [handles |-> 1, views |-> 1]

\* Drop for MapView: UnmapViewOfFile, then handle.free().
MapView_drop(res) == [handles |-> res.handles - 1, views |-> res.views - 1]

\* What a scope that called MapView::new leaves open when it is left: only a
\* MapView that was built is dropped.
ScopeExit(o) ==
    IF o = "ok" THEN MapView_drop(MapView_new(o)) ELSE MapView_new(o)

\* Whether an operation leaves anything open.
Leaks(o) == ScopeExit(o) # NoRes

\* ------------------------------------------------------------- hook_proc
\* A hook_proc that looks at the message and not at the code.
ShouldForward_anyCode(code, wparam) == wparam = WM_MOUSEMOVE

\* The test of hook_proc: an actionable code and a pointer-move message.
ShouldForward(code, wparam) == code = HC_ACTION /\ wparam = WM_MOUSEMOVE

\* The outcomes of the MapView::new that hook_proc calls: none when the test
\* fails, since the view is opened inside the if.
hook_proc_views(code, wparam) ==
    IF ShouldForward(code, wparam) THEN MapViewOutcomes ELSE {"not_opened"}

\* A hook_proc that sends the message without the payload (lparam None).
hook_proc_sends_noPayload(code, wparam, lparam, o, sd) ==
    IF code = HC_ACTION /\ wparam = WM_MOUSEMOVE /\ o = "ok"
    THEN << [hwnd |-> sd.hwnd, msg |-> WM_HOOK_MOUSE_POS,
             wparam |-> NULL, lparam |-> << >>] >>
    ELSE << >>

\* The SendMessageW calls of one invocation, o being what MapView::new gave
\* and sd the ShareData read through the view.
hook_proc_sends(code, wparam, lparam, o, sd) ==
    IF ShouldForward(code, wparam) /\ o = "ok"
    THEN << [hwnd |-> sd.hwnd, msg |-> WM_HOOK_MOUSE_POS,
             wparam |-> NULL, lparam |-> lparam] >>
    ELSE << >>

\* A hook_proc whose let-else returns without calling the next hook.
hook_proc_next_dropped(code, wparam, lparam, o) ==
    IF code = HC_ACTION /\ wparam = WM_MOUSEMOVE /\ o # "ok"
    THEN << >>
    ELSE << [code |-> code, wparam |-> wparam, lparam |-> lparam] >>

\* The CallNextHookEx calls of one invocation: the one in the let-else when
\* the view cannot be opened, the one that ends the function otherwise.
hook_proc_next(code, wparam, lparam, o) ==
    IF ShouldForward(code, wparam) /\ o # "ok"
    THEN << [code |-> code, wparam |-> wparam, lparam |-> lparam] >>
    ELSE << [code |-> code, wparam |-> wparam, lparam |-> lparam] >>

\* What hook_proc returns: the result of its CallNextHookEx call.
hook_proc_ret(calls, nextRet) == IF calls = << >> THEN 0 ELSE nextRet

\* Whether hook_proc leaves anything open: share_data is dropped where the
\* if ends.
hook_proc_leaks(o) == IF o = "not_opened" THEN FALSE ELSE Leaks(o)

\* ----------------------------------------------------- wnd_proc (the host)
\* A wnd_proc that keeps the first point it was given.
wnd_proc_keeps_first(pos, m) ==
    IF m.hwnd = HostWindow /\ m.msg = HOST_WM_HOOK_MOUSE_POS /\ pos = << >>
    THEN m.lparam ELSE pos

\* SendMessageW runs the window procedure of the window before it returns.
\* The host's wnd_proc stores the point on WM_HOOK_MOUSE_POS; a window of
\* another program, or no window, leaves the host untouched.
wnd_proc(pos, m) ==
    IF m.hwnd = HostWindow /\ m.msg = HOST_WM_HOOK_MOUSE_POS
    THEN m.lparam ELSE pos

Deliver(pos, sent) == IF sent = << >> THEN pos ELSE wnd_proc(pos, sent[1])

\* What the host has handled once SendMessageW has returned: the event
\* record behind lparam holds the point for the length of the call.
Handled(h, sent) ==
    IF sent = << >> \/ sent[1].hwnd # HostWindow
                   \/ sent[1].msg # HOST_WM_HOOK_MOUSE_POS
    THEN h
    ELSE [h EXCEPT !.handled = sent[1].lparam, !.payload = sent[1].lparam,
                   !.msg = sent[1].msg]

center_of_left_eye(rect) == <<rect[1] + 48, rect[2] + 110>>
center_of_right_eye(rect) ==
    <<center_of_left_eye(rect)[1] + 90, center_of_left_eye(rect)[2]>>

\* draw_iris draws the iris, named here by its offset_x, when the mouse is
\* not at the centre of the eye.
draw_iris(mouse_pos, center_of_eye, offset_x) ==
    LET dx_from_eye == mouse_pos[1] - center_of_eye[1]
        dy_from_eye == mouse_pos[2] - center_of_eye[2]
    IN  IF dx_from_eye * dx_from_eye + dy_from_eye * dy_from_eye > 0
        THEN {offset_x} ELSE {}

\* WM_PAINT: the two eyes, and the irises when POS holds a point.
wm_paint(pos, rect) ==
    [eyes |-> {<<5, 5, 155, 90>>, <<5, 95, 155, 180>>},
     pos |-> pos,
     irises |-> IF pos = << >> THEN {}
                ELSE draw_iris(pos, center_of_left_eye(rect), 48)
                     \cup draw_iris(pos, center_of_right_eye(rect), 138)]

\* ------------------------------------------------- set_hook and end_hook
\* A set_hook_impl that keeps the window of an earlier install.
set_hook_write_hwnd_first(sd, hwnd) ==
    IF sd.hwnd = NULL THEN [sd EXCEPT !.hwnd = hwnd] ELSE sd

\* share_data.hwnd = hwnd
set_hook_write_hwnd(sd, hwnd) == [sd EXCEPT !.hwnd = hwnd]

\* A set_hook_impl that forgets to store the handle.
set_hook_write_hook_skipped(sd, hhook) == sd

\* share_data.hook = hhook
set_hook_write_hook(sd, hhook) == [sd EXCEPT !.hook = hhook]

\* A set_hook_impl that goes on when MapView::new failed.
set_hook_registers_always(o) == TRUE

\* Whether set_hook_impl gets as far as SetWindowsHookExW: MapView::new()?
set_hook_registers(o) == o = "ok"

\* What SetWindowsHookExW can return: an error (NULL here) or a handle that
\* is not in use; the OS may hand out again a handle that was removed.
RegOutcomes(o) ==
    IF set_hook_registers(o) THEN {NULL} \cup (HookIds \ hooks) ELSE {NULL}

\* A set_hook_impl that writes the window only once the hook is registered.
set_hook_share_staged(sd, hwnd, o, hhook) ==
    IF o # "ok" \/ hhook = NULL THEN sd
    ELSE [hook |-> hhook, hwnd |-> hwnd]

\* The ShareData after set_hook_impl, hhook being what SetWindowsHookExW gave.
set_hook_share(sd, hwnd, o, hhook) ==
    IF ~set_hook_registers(o) THEN sd
    ELSE IF hhook = NULL THEN set_hook_write_hwnd(sd, hwnd)
    ELSE set_hook_write_hook(set_hook_write_hwnd(sd, hwnd), hhook)

\* set_hook: set_hook_impl(hwnd).is_ok()
set_hook_ret(o, hhook) == set_hook_registers(o) /\ hhook # NULL

\* A free that does not test the handle for null.
end_hook_unhooks_unguarded(o, sd) == o = "ok"

\* share_data.hook.free(): HHOOK's free calls UnhookWindowsHookEx unless the
\* handle is null, and drops the result.
end_hook_unhooks(o, sd) == o = "ok" /\ sd.hook # NULL

\* UnhookWindowsHookEx succeeds on a registered handle and on no other.
UnhookOk(h) == h \in hooks

\* An end_hook_impl that clears the handle it has freed.
end_hook_share_clears(sd, o) == IF o = "ok" THEN [sd EXCEPT !.hook = NULL] ELSE sd

\* The ShareData after end_hook_impl: it writes no field.
end_hook_share(sd, o) == sd

\* end_hook: end_hook_impl().is_ok(); the only error is that of MapView::new.
end_hook_ret(o, unhookOk) == o = "ok"

\* ---------------------------------------------------------------- records
NoPrev == [some |-> FALSE, hwnd |-> NULL]
NoLast == [op |-> "none", hwnd |-> NULL, ret |-> FALSE, view |-> "none",
           hmod |-> NULL, os |-> "none", handle |-> NULL,
           exists |-> FALSE, pre |-> ZeroShare, post |-> ZeroShare]
NoCb == [view |-> "none", code |-> HC_ACTION, wparam |-> NULL,
         lparam |-> << >>, sent |-> << >>, next |-> << >>,
         nextRet |-> 0, ret |-> 0]
Brief(l) ==
    IF l.op = "set_hook" /\ l.ret THEN [some |-> TRUE, hwnd |-> l.hwnd] ELSE NoPrev
Idle == [op |-> "idle", at |-> 0, hwnd |-> NULL, hhook |-> NULL, wid |-> 0]
NoPaint == [eyes |-> {}, pos |-> << >>, irises |-> {}]
NoHost == [handled |-> << >>, payload |-> << >>, msg |-> NULL,
           painted |-> NoPaint]
NoSeen == [phase |-> "none", hook |-> NULL, regWid |-> 0, readWid |-> 0,
           hwnd |-> NULL, lparam |-> << >>, sent |-> << >>]

\* ------------------------------------------------------------------- Init
Init ==
    /\ loaded = "none"
    /\ MAP_FILE = [t \in Threads |-> FALSE]
    /\ HINST = [t \in Threads |-> NULL]
    /\ regionHandle = FALSE
    /\ leaked = FALSE
    /\ share = ZeroShare
    /\ hooks = {}
    /\ POS = << >>
    /\ installCalled = FALSE
    /\ prev = NoPrev
    /\ last = NoLast
    /\ cb = NoCb
    /\ pc = Idle
    /\ writes = << >>
    /\ regOf = [h \in HookIds |-> 0]
    /\ seen = NoSeen
    /\ host = NoHost

\* ---------------------------------------------------------------- DllMain
\* DLL_PROCESS_ATTACH on thread t, CreateFileMappingW succeeding.
LoadOk(t) ==
    /\ loaded = "none"
    /\ t = LoaderThread
    /\ HINST' = [HINST EXCEPT ![t] = ModuleInst]
    /\ MAP_FILE' = [MAP_FILE EXCEPT ![t] = TRUE]
    /\ regionHandle' = TRUE
    /\ share' = ZeroShare
    /\ loaded' = "attached"
    /\ UNCHANGED <<leaked, hooks, POS, installCalled, prev, last, cb,
                   raceVars, host>>

\* DLL_PROCESS_ATTACH on thread t, CreateFileMappingW failing: DllMain
\* returns false.
LoadFail(t) ==
    /\ loaded = "none"
    /\ t = LoaderThread
    /\ HINST' = [HINST EXCEPT ![t] = ModuleInst]
    /\ loaded' = "attach_failed"
    /\ UNCHANGED <<MAP_FILE, regionHandle, leaked, share, hooks, POS,
                   installCalled, prev, last, cb,
                   raceVars, host>>

\* DLL_PROCESS_DETACH on thread t: delete_memory_map frees the handle that
\* this thread's MAP_FILE holds, if it holds one. It is the last code of the
\* module that runs.
Unload(t) ==
    /\ loaded \in {"attached", "attach_failed"}
    /\ loaded' = "detached"
    /\ regionHandle' = IF MAP_FILE[t] THEN FALSE ELSE regionHandle
    /\ share' = IF RegionExistsWith(regionHandle', leaked) THEN share ELSE ZeroShare
    /\ UNCHANGED <<MAP_FILE, HINST, leaked, hooks, POS, installCalled, prev,
                   last, cb,
                   raceVars, host>>

\* --------------------------------------------------------------- set_hook
Install(t, hwnd) ==
    /\ loaded # "detached"
    /\ \E o \in MapViewOutcomes : \E hhook \in RegOutcomes(o) :
        /\ share' = set_hook_share(share, hwnd, o, hhook)
        /\ hooks' = IF hhook = NULL THEN hooks ELSE hooks \cup {hhook}
        /\ leaked' = (leaked \/ Leaks(o))
        /\ installCalled' = TRUE
        /\ prev' = Brief(last)
        /\ last' = [op |-> "set_hook", hwnd |-> hwnd,
                    ret |-> set_hook_ret(o, hhook), view |-> o,
                    hmod |-> IF set_hook_registers(o) THEN HINST[t] ELSE NULL,
                    os |-> IF ~set_hook_registers(o) THEN "none"
                           ELSE IF hhook = NULL THEN "failed" ELSE "ok",
                    handle |-> hhook, exists |-> RegionExists,
                    pre |-> share, post |-> share']
        /\ cb' = NoCb
        /\ UNCHANGED <<loaded, MAP_FILE, HINST, regionHandle, POS,
                   raceVars, host>>

\* --------------------------------------------------------------- end_hook
Uninstall(t) ==
    /\ loaded # "detached"
    /\ \E o \in MapViewOutcomes :
        LET called == end_hook_unhooks(o, share)
            ok == called /\ UnhookOk(share.hook)
        IN  /\ share' = end_hook_share(share, o)
            /\ hooks' = IF ok THEN hooks \ {share.hook} ELSE hooks
            /\ leaked' = (leaked \/ Leaks(o))
            /\ prev' = Brief(last)
            /\ last' = [op |-> "end_hook", hwnd |-> NULL,
                        ret |-> end_hook_ret(o, ok), view |-> o,
                        hmod |-> NULL,
                        os |-> IF ~called THEN "none"
                               ELSE IF ok THEN "ok" ELSE "failed",
                        handle |-> IF called THEN share.hook ELSE NULL,
                        exists |-> RegionExists,
                        pre |-> share, post |-> share']
            /\ cb' = NoCb
            /\ UNCHANGED <<loaded, MAP_FILE, HINST, regionHandle, POS,
                           installCalled,
                   raceVars, host>>

\* -------------------------------------------------------------- hook_proc
\* The OS calls hook_proc for a live registration.
Dispatch(code, wparam, lparam, nextRet) ==
    /\ loaded # "detached"
    /\ hooks # {}
    /\ \E o \in hook_proc_views(code, wparam) :
        LET sent == hook_proc_sends(code, wparam, lparam, o, share)
            calls == hook_proc_next(code, wparam, lparam, o)
        IN  /\ cb' = [view |-> o, code |-> code, wparam |-> wparam,
                      lparam |-> lparam, sent |-> sent, next |-> calls,
                      nextRet |-> nextRet,
                      ret |-> hook_proc_ret(calls, nextRet)]
            /\ leaked' = (leaked \/ hook_proc_leaks(o))
            /\ POS' = Deliver(POS, sent)
            /\ host' = Handled(host, sent)
    /\ UNCHANGED <<loaded, MAP_FILE, HINST, regionHandle, share, hooks,
                   installCalled, prev, last,
                   raceVars>>

Next ==
    \/ \E t \in Threads : LoadOk(t)
    \/ \E t \in Threads : LoadFail(t)
    \/ \E t \in Threads : Unload(t)
    \/ \E t \in Threads : \E hwnd \in HwndArgs : Install(t, hwnd)
    \/ \E t \in Threads : Uninstall(t)
    \/ \E code \in Codes : \E wparam \in MessageKinds : \E lparam \in Points :
         \E nextRet \in NextResults : Dispatch(code, wparam, lparam, nextRet)

Spec == Init /\ [][Next]_vars

TypeOK ==
    /\ loaded \in {"none", "attached", "attach_failed", "detached"}
    /\ share \in ShareData
    /\ hooks \subseteq HookIds
    /\ leaked \in BOOLEAN
    /\ POS \in Points \cup {<< >>}

\* ------------------------------------------- the calls, statement by statement
\* The host and the hook dispatch share the ShareData with no lock: here a
\* set_hook or end_hook call runs one statement at a time and hook_proc runs
\* between the statements, its read of share_data.hwnd and its SendMessageW
\* being two steps. Each read and each write of a field is one step.

\* A set_hook_impl that registers the hook before it writes the window.
set_hook_steps_registerFirst == << "register", "write_hwnd", "write_hook" >>

\* The statements of set_hook_impl that follow MapView::new()?, in order.
set_hook_steps == << "write_hwnd", "register", "write_hook" >>

\* The call goes on to its next statement, or returns after the last.
Advance(c) ==
    IF c.at = Len(set_hook_steps) THEN Idle ELSE [c EXCEPT !.at = @ + 1]

\* set_hook(hwnd) is called and runs MapView::new()?.
BeginInstall(hwnd) ==
    /\ loaded = "attached"
    /\ pc.op = "idle"
    /\ Len(writes) < MaxWrites
    /\ \E o \in MapViewOutcomes :
        /\ pc' = IF set_hook_registers(o)
                 THEN [op |-> "set_hook", at |-> 1, hwnd |-> hwnd,
                       hhook |-> NULL, wid |-> 0]
                 ELSE Idle
        /\ leaked' = (leaked \/ Leaks(o))
    /\ UNCHANGED <<loaded, MAP_FILE, HINST, regionHandle, share, hooks, POS,
                   installCalled, prev, last, cb, writes, regOf, seen, host>>

\* share_data.hwnd = hwnd
InstallWriteHwnd ==
    /\ pc.op = "set_hook"
    /\ set_hook_steps[pc.at] = "write_hwnd"
    /\ share' = set_hook_write_hwnd(share, pc.hwnd)
    /\ writes' = Append(writes, pc.hwnd)
    /\ pc' = Advance([pc EXCEPT !.wid = Len(writes')])
    /\ UNCHANGED <<loaded, MAP_FILE, HINST, regionHandle, leaked, hooks, POS,
                   installCalled, prev, last, cb, regOf, seen, host>>

\* SetWindowsHookExW(..)?: an error returns from set_hook_impl.
InstallRegister ==
    /\ pc.op = "set_hook"
    /\ set_hook_steps[pc.at] = "register"
    /\ \E hhook \in RegOutcomes("ok") :
        IF hhook = NULL
        THEN /\ pc' = Idle
             /\ UNCHANGED <<hooks, regOf>>
        ELSE /\ hooks' = hooks \cup {hhook}
             /\ regOf' = [regOf EXCEPT ![hhook] =
                             IF pc.wid # 0 THEN pc.wid ELSE Len(writes) + 1]
             /\ pc' = Advance([pc EXCEPT !.hhook = hhook])
    /\ UNCHANGED <<loaded, MAP_FILE, HINST, regionHandle, leaked, share, POS,
                   installCalled, prev, last, cb, writes, seen, host>>

\* share_data.hook = hhook
InstallWriteHook ==
    /\ pc.op = "set_hook"
    /\ set_hook_steps[pc.at] = "write_hook"
    /\ share' = set_hook_write_hook(share, pc.hhook)
    /\ pc' = Advance(pc)
    /\ UNCHANGED <<loaded, MAP_FILE, HINST, regionHandle, leaked, hooks, POS,
                   installCalled, prev, last, cb, writes, regOf, seen, host>>

\* end_hook() is called and runs MapView::new()?.
BeginUninstall ==
    /\ loaded = "attached"
    /\ pc.op = "idle"
    /\ \E o \in MapViewOutcomes :
        /\ pc' = IF o = "ok" THEN [Idle EXCEPT !.op = "end_hook", !.at = 1]
                 ELSE Idle
        /\ leaked' = (leaked \/ Leaks(o))
    /\ UNCHANGED <<loaded, MAP_FILE, HINST, regionHandle, share, hooks, POS,
                   installCalled, prev, last, cb, writes, regOf, seen, host>>

\* share_data.hook.free()
UninstallFree ==
    /\ pc.op = "end_hook"
    /\ LET ok == end_hook_unhooks("ok", share) /\ UnhookOk(share.hook)
       IN  /\ hooks' = IF ok THEN hooks \ {share.hook} ELSE hooks
           /\ regOf' = IF ok THEN [regOf EXCEPT ![share.hook] = 0] ELSE regOf
    /\ share' = end_hook_share(share, "ok")
    /\ pc' = Idle
    /\ UNCHANGED <<loaded, MAP_FILE, HINST, regionHandle, leaked, POS,
                   installCalled, prev, last, cb, writes, seen, host>>

\* The hook h dispatches an actionable pointer-move event: hook_proc opens
\* its view and reads share_data.hwnd, the argument of SendMessageW.
CbRead(h, lparam) ==
    /\ loaded = "attached"
    /\ h \in hooks
    /\ seen.phase # "read"
    /\ \E o \in hook_proc_views(HC_ACTION, WM_MOUSEMOVE) :
        /\ seen' = IF o = "ok"
                   THEN [phase |-> "read", hook |-> h, regWid |-> regOf[h],
                         readWid |-> Len(writes), hwnd |-> share.hwnd,
                         lparam |-> lparam, sent |-> << >>]
                   ELSE [NoSeen EXCEPT !.phase = "skipped", !.hook = h,
                                       !.lparam = lparam]
        /\ leaked' = (leaked \/ hook_proc_leaks(o))
    /\ UNCHANGED <<loaded, MAP_FILE, HINST, regionHandle, share, hooks, POS,
                   installCalled, prev, last, cb, pc, writes, regOf, host>>

\* SendMessageW(share_data.hwnd, ..) with the window that was read.
CbSend ==
    /\ seen.phase = "read"
    /\ LET sent == hook_proc_sends(HC_ACTION, WM_MOUSEMOVE, seen.lparam, "ok",
                                   [hook |-> share.hook, hwnd |-> seen.hwnd])
       IN  /\ seen' = [seen EXCEPT !.phase = "sent", !.sent = sent]
           /\ POS' = Deliver(POS, sent)
           /\ host' = Handled(host, sent)
    /\ UNCHANGED <<loaded, MAP_FILE, HINST, regionHandle, leaked, share, hooks,
                   installCalled, prev, last, cb, pc, writes, regOf>>

NextRace ==
    \/ \E t \in Threads : LoadOk(t)
    \/ \E hwnd \in HwndArgs : BeginInstall(hwnd)
    \/ InstallWriteHwnd
    \/ InstallRegister
    \/ InstallWriteHook
    \/ BeginUninstall
    \/ UninstallFree
    \/ \E h \in HookIds : \E lparam \in Points : CbRead(h, lparam)
    \/ CbSend

SpecRace == Init /\ [][NextRace]_vars

\* ------------------------------------------------- the host's wnd_proc alone
\* The messages that reach the host's window procedure, whoever sent them.
\* The host imports the hook module, so DllMain has run on the thread of the
\* window before any message.

\* WM_CREATE: set_hook(hwnd) with the window that is being created.
HostCreate == Install(LoaderThread, HostWindow)

\* WM_DESTROY: end_hook()
HostDestroy == Uninstall(LoaderThread)

\* WM_HOOK_MOUSE_POS with an event record that holds pt.
HostPosition(pt) ==
    LET sent == << [hwnd |-> HostWindow, msg |-> HOST_WM_HOOK_MOUSE_POS,
                    wparam |-> NULL, lparam |-> pt] >>
    IN  /\ POS' = Deliver(POS, sent)
        /\ host' = Handled(host, sent)
        /\ UNCHANGED <<loaded, MAP_FILE, HINST, regionHandle, leaked, share,
                       hooks, installCalled, prev, last, cb, raceVars>>

\* After SendMessageW has returned the event record is the sender's again,
\* which puts another event in it.
PayloadReused(pt) ==
    /\ host.payload # << >>
    /\ host.payload # pt
    /\ host' = [host EXCEPT !.payload = pt]
    /\ UNCHANGED <<loaded, MAP_FILE, HINST, regionHandle, leaked, share, hooks,
                   POS, installCalled, prev, last, cb, raceVars>>

\* WM_PAINT, GetWindowRect giving a window at rect.
HostPaint(rect) ==
    /\ host' = [host EXCEPT !.msg = WM_PAINT, !.painted = wm_paint(POS, rect)]
    /\ UNCHANGED <<loaded, MAP_FILE, HINST, regionHandle, leaked, share, hooks,
                   POS, installCalled, prev, last, cb, raceVars>>

\* Any other message goes to DefWindowProcW.
HostOther(msg) ==
    /\ host' = [host EXCEPT !.msg = msg]
    /\ UNCHANGED <<loaded, MAP_FILE, HINST, regionHandle, leaked, share, hooks,
                   POS, installCalled, prev, last, cb, raceVars>>

NextHost ==
    \/ \E t \in Threads : LoadOk(t)
    \/ HostCreate
    \/ HostDestroy
    \/ \E pt \in Points : HostPosition(pt)
    \/ \E pt \in Points : PayloadReused(pt)
    \/ \E rect \in Origins : HostPaint(rect)
    \/ \E msg \in {WM_OTHER} : HostOther(msg)

SpecHost == Init /\ [][NextHost]_vars

\* ================================================================= claims
IsCall(c) == c.view # "none"
Event(c) == [code |-> c.code, wparam |-> c.wparam, lparam |-> c.lparam]
Actionable(c) == c.code = HC_ACTION /\ c.wparam = WM_MOUSEMOVE
PositionMessage(w, p) ==
    [hwnd |-> w, msg |-> HOST_WM_HOOK_MOUSE_POS, wparam |-> NULL, lparam |-> p]
SentTo(c) == {c.sent[i].hwnd : i \in 1..Len(c.sent)}

\* C1: every invocation of hook_proc, whatever the code and the message kind
\* and whether or not a view opens or a message is sent, calls CallNextHookEx
\* exactly once, with the code, message kind and event data it was given, and
\* returns what that call returned.
C1_ChainContinued ==
    IsCall(cb) => /\ cb.next = << Event(cb) >>
                  /\ cb.ret = cb.nextRet

\* An actionable pointer-move event whose view could not be opened, the next
\* hook having returned 1.
C1_Witness ==
    /\ Actionable(cb)
    /\ cb.view = "view_failed"
    /\ cb.nextRet = 1
    /\ cb.ret = 1

\* C2: hook_proc sends a message only for the actionable code with the
\* pointer-move message kind; for any other code or message kind it sends
\* nothing and opens no view.
C2_ForwardOnlyActionableMove ==
    IsCall(cb) =>
        /\ cb.sent # << >> => Actionable(cb)
        /\ ~Actionable(cb) => cb.sent = << >> /\ cb.view = "not_opened"

\* A pointer-move event with a code that is not actionable, while a window is
\* installed: nothing was sent.
C2_Witness ==
    /\ cb.code = HC_SKIP
    /\ cb.wparam = WM_MOUSEMOVE
    /\ cb.view = "not_opened"
    /\ cb.sent = << >>
    /\ share.hwnd = HostWindow
    /\ hooks # {}

\* C3 as stated: after install(w) returned true, with no later install or
\* uninstall, every actionable pointer-move event with payload p makes
\* window w receive the position message, WM_USER + 42, with payload p.
C3_Original ==
    (last.op = "set_hook" /\ last.ret /\ last.hwnd \in Windows
        /\ IsCall(cb) /\ Actionable(cb))
    => /\ cb.sent = << PositionMessage(last.hwnd, cb.lparam) >>
       /\ last.hwnd = HostWindow => POS = cb.lparam

\* C3, amended: after install(w) returned true, with no later install or
\* uninstall, every actionable pointer-move event with payload p whose
\* hook_proc opens its view makes window w receive, within that invocation,
\* the position message, whose id WM_USER + 42 is the id the host handles,
\* with payload p, and the host stores p; when the view does not open,
\* nothing is sent.
C3_ForwardedWhenViewOpens ==
    (last.op = "set_hook" /\ last.ret /\ last.hwnd \in Windows
        /\ IsCall(cb) /\ Actionable(cb))
    => IF cb.view = "ok"
       THEN /\ cb.sent = << PositionMessage(last.hwnd, cb.lparam) >>
            /\ cb.sent[1].msg = WM_USER + 42
            /\ last.hwnd = HostWindow => POS = cb.lparam
       ELSE cb.sent = << >>

\* Scenario A: install(42) returned true and the event at (100, 200) reached
\* window 42.
C3_Witness ==
    /\ loaded = "attached"
    /\ last.op = "set_hook" /\ last.ret /\ last.hwnd = 42
    /\ cb.view = "ok"
    /\ cb.sent = << PositionMessage(42, <<100, 200>>) >>
    /\ POS = <<100, 200>>

\* C4 as stated: after install(w) returned true and a following uninstall()
\* returned true, no event dispatched afterwards makes hook_proc send a
\* message to w.
C4_Original ==
    (last.op = "end_hook" /\ last.ret /\ prev.some /\ prev.hwnd \in Windows
        /\ IsCall(cb))
    => prev.hwnd \notin SentTo(cb)

\* C5: after install(w1) and then install(w2) have both returned true, every
\* message that hook_proc sends goes to w2, and none to w1 or to any other
\* window.
C5_OnlyLatestWindow ==
    (last.op = "set_hook" /\ last.ret /\ IsCall(cb))
    => /\ SentTo(cb) \subseteq {last.hwnd}
       /\ (prev.some /\ prev.hwnd # last.hwnd) => prev.hwnd \notin SentTo(cb)

\* install(w1) then install(w2), both true and both hooks live, and an event
\* has been forwarded.
C5_Witness ==
    /\ last.op = "set_hook" /\ last.ret
    /\ prev.some /\ prev.hwnd \in Windows
    /\ last.hwnd \in Windows /\ prev.hwnd # last.hwnd
    /\ Cardinality(hooks) = 2
    /\ cb.sent # << >>

\* C6: when the named region does not exist, set_hook and end_hook return
\* false, MapView::new returns an error, set_hook registers no hook and
\* end_hook deregisters nothing.
C6_NoRegionNoEffect ==
    (last.op # "none" /\ ~last.exists)
    => /\ last.ret = FALSE
       /\ last.view = "open_failed"
       /\ last.os = "none"
       /\ last.handle = NULL
       /\ last.post = last.pre

\* Scenario C: install(7) after the creation of the region failed at load.
C6_Witness ==
    /\ loaded = "attach_failed"
    /\ last.op = "set_hook" /\ last.hwnd = 7
    /\ ~last.exists
    /\ last.ret = FALSE
    /\ hooks = {}

\* C7 as stated: when end_hook deregisters the stored handle, it returns true
\* exactly when the view opened and the deregistration succeeded, and false
\* when the view cannot be opened or the deregistration fails.
C7_Original ==
    last.op = "end_hook" =>
        /\ last.view # "ok" => last.ret = FALSE
        /\ last.os = "ok" => last.ret = TRUE
        /\ last.os = "failed" => last.ret = FALSE

\* C8: end_hook called when set_hook has never been called returns a boolean
\* (true when the view opened, false otherwise), calls UnhookWindowsHookEx on
\* nothing and leaves both fields of the record null.
C8_UninstallBeforeInstall ==
    (last.op = "end_hook" /\ ~installCalled)
    => /\ last.ret \in BOOLEAN
       /\ last.ret = (last.view = "ok")
       /\ last.os = "none"
       /\ last.pre = ZeroShare
       /\ last.post = last.pre
       /\ hooks = {}

\* end_hook after a successful load, before any set_hook, its view opened.
C8_Witness ==
    /\ loaded = "attached"
    /\ ~installCalled
    /\ last.op = "end_hook"
    /\ last.view = "ok"
    /\ last.ret = TRUE

\* C9 as stated: in every reachable state at most one hook registration made
\* by the module is live and at most one target window is designated.
C9_Original ==
    /\ Cardinality(hooks) <= 1
    /\ share.hwnd \in HwndArgs

\* C10 as stated: every handle and view that an operation opens through
\* MapView is released when the operation returns; none is held while no
\* operation is in progress.
C10_Original == leaked = FALSE

\* C11 as stated: every SetWindowsHookExW call of set_hook after a successful
\* load is given the module instance that DllMain recorded at load, whichever
\* thread calls set_hook.
C11_Original ==
    (last.op = "set_hook" /\ last.os # "none") => last.hmod = ModuleInst

\* C12 as stated: after load and unload the region handle that load created
\* has been released, whichever thread the unload ran on.
C12_Original == loaded = "detached" => ~regionHandle

\* C13 as stated: on an actionable pointer-move event whose view opens,
\* hook_proc sends no message when the target_window it reads is null.
C13_Original ==
    (IsCall(cb) /\ Actionable(cb) /\ cb.view = "ok" /\ loaded # "detached"
        /\ share.hwnd = NULL)
    => cb.sent = << >>

\* C14: when set_hook(w) opens a view and SetWindowsHookExW fails, set_hook
\* returns false, target_window is w afterwards, hook_handle is what it was
\* before the call and no hook has been registered by the call.
C14_FailedRegistration ==
    (last.op = "set_hook" /\ last.view = "ok" /\ last.os = "failed")
    => /\ last.ret = FALSE
       /\ last.post.hwnd = last.hwnd
       /\ last.post.hook = last.pre.hook
       /\ last.handle = NULL
       /\ loaded # "detached" => share = last.post

\* set_hook(7) failing at registration after set_hook(42) had succeeded.
C14_Witness ==
    /\ last.op = "set_hook" /\ last.os = "failed" /\ last.hwnd = 7
    /\ last.pre.hwnd = 42 /\ last.pre.hook # NULL
    /\ share = [hook |-> last.pre.hook, hwnd |-> 7]

\* C15: end_hook writes no field of the record: hook_handle and target_window
\* are after the call what they were before it, whether the deregistration
\* succeeded, failed or was not attempted.
C15_UninstallWritesNothing ==
    last.op = "end_hook" =>
        /\ last.post = last.pre
        /\ loaded # "detached" => share = last.pre

\* end_hook that deregistered the stored hook and left the record alone.
C15_Witness ==
    /\ last.op = "end_hook" /\ last.os = "ok"
    /\ last.pre.hook # NULL /\ last.pre.hwnd # NULL
    /\ share = last.pre

\* C16 as stated: in every reachable state a non-null hook_handle is the
\* handle of a hook that is registered.
C16_Original ==
    (loaded # "detached" /\ share.hook # NULL) => share.hook \in hooks

\* C16, amended: hook_handle is the handle of a registered hook when set_hook
\* has returned true and until the next end_hook; end_hook leaves the handle
\* in the record, so after an end_hook that deregistered it hook_handle is
\* non-null and names no registered hook, and an end_hook whose
\* deregistration failed was given a handle that is still in the record.
C16_HandleLiveUntilUninstall ==
    loaded # "detached" =>
        /\ (last.op = "set_hook" /\ last.ret)
             => share.hook # NULL /\ share.hook \in hooks
        /\ (last.op = "end_hook" /\ last.os = "ok")
             => share.hook # NULL /\ share.hook \notin hooks
        /\ (last.op = "end_hook" /\ last.os = "failed")
             => share.hook = last.handle /\ share.hook \notin hooks

\* A second end_hook: it tried to deregister the stale handle.
C16_Witness ==
    /\ last.op = "end_hook" /\ last.os = "failed"
    /\ share.hook # NULL
    /\ share.hook \notin hooks

\* C17 as stated: after any end_hook call has returned, whatever its outcome
\* and whatever calls preceded it, no hook that the module registered is live
\* and no event is forwarded.
C17_Original ==
    last.op = "end_hook" => hooks = {} /\ cb.sent = << >>

\* C19 as stated: after set_hook(w2) has failed at registration while an
\* earlier hook is live, every actionable pointer-move event is forwarded to
\* w2 and not to w1.
C19_Original ==
    (last.op = "set_hook" /\ last.os = "failed" /\ IsCall(cb) /\ Actionable(cb))
    => /\ cb.sent = << PositionMessage(last.hwnd, cb.lparam) >>
       /\ (prev.some /\ prev.hwnd # last.hwnd) => prev.hwnd \notin SentTo(cb)

\* C19, amended: after set_hook(w2) has failed at registration and returned
\* false while an earlier hook is live, every actionable pointer-move event
\* whose hook_proc opens its view is forwarded to w2 and not to w1; when the
\* view does not open nothing is sent.
C19_FailedInstallRedirects ==
    (last.op = "set_hook" /\ last.os = "failed" /\ IsCall(cb) /\ Actionable(cb))
    => /\ last.ret = FALSE
       /\ IF cb.view = "ok"
          THEN cb.sent = << PositionMessage(last.hwnd, cb.lparam) >>
          ELSE cb.sent = << >>
       /\ (prev.some /\ prev.hwnd # last.hwnd) => prev.hwnd \notin SentTo(cb)

\* set_hook(42) true, set_hook(7) false at registration, and the event went
\* to 7.
C19_Witness ==
    /\ prev.some /\ prev.hwnd = 42
    /\ last.op = "set_hook" /\ last.os = "failed" /\ last.hwnd = 7
    /\ ~last.ret
    /\ cb.sent # << >>
    /\ SentTo(cb) = {7}

\* C18: with hook_proc running between the statements of set_hook and
\* end_hook, a hook_proc dispatched by a hook that set_hook(w) registered
\* never reads the target_window from before that set_hook wrote w, the
\* window it reads is the argument of the latest set_hook whose write came
\* before the read, and the message it sends is addressed to that window.
C18_LastWriterWins ==
    seen.phase \in {"read", "sent"} =>
        /\ seen.readWid >= seen.regWid
        /\ seen.readWid >= 1
        /\ seen.hwnd = writes[seen.readWid]
        /\ seen.phase = "sent" =>
             seen.sent = << PositionMessage(writes[seen.readWid], seen.lparam) >>

\* The hook of set_hook(42) dispatches while set_hook(7) has written the
\* window and has not yet returned: the message goes to 7. The send comes
\* after the write that the read saw.
C18_Witness ==
    /\ writes = << 42, 7 >>
    /\ pc.op = "set_hook"
    /\ seen.phase = "sent"
    /\ seen.regWid = 1
    /\ seen.readWid = 2
    /\ SentTo(seen) = {7}

\* C20: the host's stored position is absent until the first position
\* message is handled and is afterwards the point of the position message
\* handled last, also when the event record that message pointed to holds
\* another point by now; a paint draws irises only when a position is stored.
C20_StoredPosition ==
    /\ POS = host.handled
    /\ host.painted.irises # {} => host.painted.pos # << >>
    /\ host.msg = WM_PAINT => host.painted.pos = POS

\* The position (100, 200) is stored, the event record has been reused for
\* (3, 4), and the paint that followed drew the right iris only, the left
\* eye being centred on the mouse.
C20_Witness ==
    /\ POS = <<100, 200>>
    /\ host.payload = <<3, 4>>
    /\ host.msg = WM_PAINT
    /\ host.painted.irises = {138}

====
